---- MODULE Spec2Model ----
(***************************************************************************)
(* Model of the VSphereMachine reconciler of cluster-api-provider-vsphere: *)
(* machineReconciler.Reconcile with its deferred patch and poll loop,      *)
(* reconcileNormal / reconcileDelete / reconcileNetwork /                  *)
(* reconcileProviderID, the in-flight task tracker (getTask,               *)
(* reconcileInFlightTask), findVM, the provider-id codec and the           *)
(* completion notifier (reconcileObjectOnFuncCompletion) with the          *)
(* background units it starts.                                             *)
(***************************************************************************)
EXTENDS Integers, Sequences, FiniteSets, TLC

VARIABLES
    store,      \* the VSphereMachine as the API server holds it
    precond,    \* the precondition of the normal path that is not met yet
    fault,      \* the provider call that currently fails
    tasks,      \* the provider's task table: task number -> [kind, state]
    issued,     \* number of provider tasks issued so far
    vm,         \* the instance as the provider holds it
    pc,         \* position of the Reconcile invocation
    obj,        \* machineContext.VSphereMachine, the local copy
    before,     \* the copy the patch helper took when it was created
    stepErr,    \* the error the dispatched step returned
    patched,    \* outcome of the deferred patch, "none" before it ran
    reterr,     \* Reconcile's named result reterr
    exit,       \* the return statement the dispatched step left through
    calls,      \* the Provider Client calls made by this invocation
    view,       \* the instance view the VM service returned to the step
    stable,     \* nothing outside the loop changed since the last normal step
    waits,      \* the background wait units, in the order they were started
    events,     \* GenericEvents sent into the VSphereMachine event channel
    codec,      \* the last call of the identifier codec: argument and result
    lookup      \* the last call of findVM on its own: provider id and result

vars == <<store, precond, fault, tasks, issued, vm, pc, obj, before, stepErr,
          patched, reterr, exit, calls, view, stable, waits, events, codec, lookup>>

envVars == <<precond, fault, tasks, issued, vm>>
runVars == <<pc, obj, before, stepErr, patched, reterr, exit, calls, view>>
bgVars == <<waits, events>>
fnVars == <<codec, lookup>>

----------------------------------------------------------------------------
(* Bounds *)

MaxNet == 2         \* network devices / interfaces per machine
MaxTasks == 2       \* provider tasks issued in one behaviour
MaxVersion == 4     \* resource versions handed out by the store
MaxEdits == 1       \* characters replaced in a UUID handed to the codec

----------------------------------------------------------------------------
(* Values *)

Nil == "<nil>"
NoErr == "<nil>"
MachineFinalizer == "vspheremachine.infrastructure.cluster.x-k8s.io"
ForeignFinalizer == "foreign.example.io"
NodeInternalIP == "InternalIP"
IPAddrPool == {"10.0.0.4"}

VirtualMachineStateNotFound == "notfound"
VirtualMachineStatePending == "pending"
VirtualMachineStateReady == "ready"

TaskInfoStateQueued == "queued"
TaskInfoStateRunning == "running"
TaskInfoStateSuccess == "success"
TaskInfoStateError == "error"
TaskInfoStateOther == "paused"
TaskStates == {TaskInfoStateQueued, TaskInfoStateRunning, TaskInfoStateSuccess,
               TaskInfoStateError, TaskInfoStateOther}

Rep(c, n) == [i \in 1..n |-> c]
UUIDOf(c) == Rep(c, 8) \o <<"-">> \o Rep(c, 4) \o <<"-">> \o Rep(c, 4)
             \o <<"-">> \o Rep(c, 4) \o <<"-">> \o Rep(c, 12)
GoodUUID == UUIDOf("4")
BadUUID == UUIDOf("g")
BiosUUIDs == {GoodUUID, BadUUID}

----------------------------------------------------------------------------
(* Identifier codec *)

ProviderIDPrefix == <<"v", "s", "p", "h", "e", "r", "e", ":", "/", "/">>

Digits == {"0", "1", "2", "3", "4", "5", "6", "7", "8", "9"}
LowerHex == {"a", "b", "c", "d", "e", "f"}
UpperHex == {"A", "B", "C", "D", "E", "F"}

\* LATIN SMALL LETTER LONG S, the third member of the case orbit of s
LongS == "U+017F"

\* (?i) folds case: a letter of the pattern matches every character of its
\* case orbit under Unicode simple folding
FoldCase(c) ==
    CASE c = "V" -> "v" [] c \in {"S", LongS} -> "s" [] c = "P" -> "p"
      [] c = "H" -> "h" [] c = "E" -> "e" [] c = "R" -> "r" [] OTHER -> c

\* (?i)^[a-f\d]{8}-[a-f\d]{4}-[a-f\d]{4}-[a-f\d]{4}-[a-f\d]{12}$
UUIDPattern(s) ==
    /\ Len(s) = 36
    /\ \A i \in 1..36 :
          IF i \in {9, 14, 19, 24} THEN s[i] = "-"
          ELSE s[i] \in Digits \cup LowerHex \cup UpperHex

\* (?i)^vsphere://([a-f\d]{8}-...-[a-f\d]{12})$
ProviderIDPattern(s) ==
    /\ Len(s) = Len(ProviderIDPrefix) + 36
    /\ \A i \in 1..Len(ProviderIDPrefix) : FoldCase(s[i]) = ProviderIDPrefix[i]
    /\ UUIDPattern(SubSeq(s, Len(ProviderIDPrefix) + 1, Len(s)))

\* a *string is [set |-> FALSE] for nil and [set |-> TRUE, val |-> s] otherwise
NilString == [set |-> FALSE, val |-> <<>>]
PtrTo(s) == [set |-> TRUE, val |-> s]

\* a decoder that returns the whole match instead of the captured group
ConvertProviderIDToUUID_WholeMatch(providerID) ==
    IF ~providerID.set \/ providerID.val = <<>> THEN <<>>
    ELSE IF ~ProviderIDPattern(providerID.val) THEN <<>>
    ELSE providerID.val

ConvertProviderIDToUUID(providerID) ==
    IF ~providerID.set \/ providerID.val = <<>> THEN <<>>
    ELSE IF ~ProviderIDPattern(providerID.val) THEN <<>>
    ELSE SubSeq(providerID.val, Len(ProviderIDPrefix) + 1, Len(providerID.val))

ConvertUUIDToProviderID(uuid) ==
    IF uuid = <<>> THEN <<>>
    ELSE IF ~UUIDPattern(uuid) THEN <<>>
    ELSE ProviderIDPrefix \o uuid

\* the strings handed to the codec: UUIDs with up to MaxEdits characters
\* replaced, shortened and lengthened UUIDs and the empty string, and for the
\* decoder each of them behind a spelling of the scheme prefix
CodecAlphabet == {"0", "a", "F", "g", "G", "-"}

RECURSIVE Edited(_, _)
Edited(S, n) ==
    IF n = 0 THEN S
    ELSE Edited(S \cup {[u EXCEPT ![i] = c] :
                            u \in S, i \in 1..36, c \in CodecAlphabet}, n - 1)

UUIDInputs ==
    Edited({GoodUUID, UUIDOf("c")}, MaxEdits)
        \cup {<<>>, SubSeq(GoodUUID, 1, 35), GoodUUID \o <<"0">>,
              <<" ">> \o GoodUUID}

PrefixInputs ==
    {ProviderIDPrefix,
     <<"V", "S", "P", "H", "E", "R", "E", ":", "/", "/">>,
     <<"v", "S", "p", "h", "e", "r", "e", ":", "/", "/">>,
     <<"v", LongS, "p", "h", "e", "r", "e", ":", "/", "/">>,
     <<"v", "s", "p", "h", "e", "r", "e", ":", "/">>,
     <<"x", "s", "p", "h", "e", "r", "e", ":", "/", "/">>,
     <<" ">> \o ProviderIDPrefix,
     <<>>}

ProviderIDInputs ==
    {NilString} \cup {PtrTo(p \o u) : p \in PrefixInputs, u \in UUIDInputs}

NoCodec == [op |-> "none", arg |-> NilString, res |-> <<>>]

----------------------------------------------------------------------------
(* String-list helpers of cluster-api's util package *)

Contains(list, str) == \E i \in 1..Len(list) : list[i] = str

Filter(list, strToFilter) == SelectSeq(list, LAMBDA item : item # strToFilter)

----------------------------------------------------------------------------
(* The resource *)

EmptyStatus ==
    [Ready |-> FALSE, TaskRef |-> "", Network |-> <<>>, Addresses |-> <<>>,
     ErrorReason |-> Nil, ErrorMessage |-> Nil]

NewMachine(devices, finalizers) ==
    [ResourceVersion |-> 1, DeletionTimestamp |-> FALSE,
     Finalizers |-> finalizers,
     Spec |-> [ProviderID |-> NilString, Devices |-> devices],
     Status |-> EmptyStatus]

Absent == [ResourceVersion |-> 0]
Exists(o) == o.ResourceVersion # 0

TaskRefOf(i) == "task-" \o ToString(i)
\* queries counts the RetrieveOne calls getTask made to produce the answer
NoTask == [found |-> FALSE, queries |-> 0]
\* the UID of the owning Machine, which a created instance carries as its
\* instance UUID, and the instance UUID of an instance of another origin
MachineUID == "machine-uid"
OtherUID == "other-uid"
NoVM ==
    [exists |-> FALSE, poweredOn |-> FALSE, network |-> <<>>, biosUUID |-> <<>>,
     instanceUUID |-> ""]

----------------------------------------------------------------------------
(* Task tracker *)

\* a lookup that hands a failed query on as a task in an unknown state
getTask_FailsClosed(m) ==
    IF m.Status.TaskRef = "" THEN NoTask
    ELSE LET ids == {i \in DOMAIN tasks : TaskRefOf(i) = m.Status.TaskRef}
         IN  IF fault = "taskQuery" \/ ids = {}
             THEN [found |-> TRUE, queries |-> 1, ref |-> m.Status.TaskRef,
                   kind |-> "none", state |-> TaskInfoStateOther]
             ELSE LET i == CHOOSE j \in ids : TRUE
                  IN  [found |-> TRUE, queries |-> 1, ref |-> TaskRefOf(i),
                       kind |-> tasks[i].kind, state |-> tasks[i].state]

\* the task Status.TaskRef names, as the provider reports it
getTask(m) ==
    IF m.Status.TaskRef = "" THEN NoTask
    ELSE LET ids == {i \in DOMAIN tasks : TaskRefOf(i) = m.Status.TaskRef}
         IN  IF fault = "taskQuery" \/ ids = {}
             THEN [found |-> FALSE, queries |-> 1]
             ELSE LET i == CHOOSE j \in ids : TRUE
                  IN  [found |-> TRUE, queries |-> 1, ref |-> TaskRefOf(i),
                       kind |-> tasks[i].kind, state |-> tasks[i].state]

\* a tracker that forgets the reference of a task that is still running
reconcileInFlightTask_ClearsRunning(m) ==
    LET Classify(task, cleared) ==
            IF ~task.found
            THEN [m |-> cleared, inFlight |-> FALSE, err |-> NoErr]
            ELSE CASE task.state = TaskInfoStateQueued ->
                        [m |-> m, inFlight |-> TRUE, err |-> NoErr]
                   [] task.state = TaskInfoStateRunning ->
                        [m |-> cleared, inFlight |-> TRUE, err |-> NoErr]
                   [] task.state \in {TaskInfoStateSuccess, TaskInfoStateError} ->
                        [m |-> cleared, inFlight |-> FALSE, err |-> NoErr]
                   [] OTHER ->
                        [m |-> m, inFlight |-> FALSE, err |-> "unknown task state"]
    IN  Classify(getTask(m), [m EXCEPT !.Status.TaskRef = ""])

\* a tracker that keeps the reference of a failed task
reconcileInFlightTask_KeepsFailed(m) ==
    LET Classify(task, cleared) ==
            IF ~task.found
            THEN [m |-> cleared, inFlight |-> FALSE, err |-> NoErr]
            ELSE CASE task.state \in {TaskInfoStateQueued, TaskInfoStateRunning} ->
                        [m |-> m, inFlight |-> TRUE, err |-> NoErr]
                   [] task.state = TaskInfoStateSuccess ->
                        [m |-> cleared, inFlight |-> FALSE, err |-> NoErr]
                   [] task.state = TaskInfoStateError ->
                        [m |-> m, inFlight |-> FALSE, err |-> NoErr]
                   [] OTHER ->
                        [m |-> m, inFlight |-> FALSE, err |-> "unknown task state"]
    IN  Classify(getTask(m), [m EXCEPT !.Status.TaskRef = ""])

\* a tracker that reports a finished task as still running while it clears it
reconcileInFlightTask_FinishedStillRunning(m) ==
    LET Classify(task, cleared) ==
            IF ~task.found
            THEN [m |-> cleared, inFlight |-> FALSE, err |-> NoErr]
            ELSE CASE task.state \in {TaskInfoStateQueued, TaskInfoStateRunning} ->
                        [m |-> m, inFlight |-> TRUE, err |-> NoErr]
                   [] task.state \in {TaskInfoStateSuccess, TaskInfoStateError} ->
                        [m |-> cleared, inFlight |-> TRUE, err |-> NoErr]
                   [] OTHER ->
                        [m |-> m, inFlight |-> FALSE, err |-> "unknown task state"]
    IN  Classify(getTask(m), [m EXCEPT !.Status.TaskRef = ""])

\* a tracker that takes a task in an unknown state for a finished one
reconcileInFlightTask_UnknownCleared(m) ==
    LET Classify(task, cleared) ==
            IF ~task.found
            THEN [m |-> cleared, inFlight |-> FALSE, err |-> NoErr]
            ELSE CASE task.state \in {TaskInfoStateQueued, TaskInfoStateRunning} ->
                        [m |-> m, inFlight |-> TRUE, err |-> NoErr]
                   [] OTHER ->
                        [m |-> cleared, inFlight |-> FALSE, err |-> NoErr]
    IN  Classify(getTask(m), [m EXCEPT !.Status.TaskRef = ""])

reconcileInFlightTask(m) ==
    LET Classify(task, cleared) ==
            IF ~task.found
            THEN [m |-> cleared, inFlight |-> FALSE, err |-> NoErr]
            ELSE CASE task.state = TaskInfoStateQueued ->
                        [m |-> m, inFlight |-> TRUE, err |-> NoErr]
                   [] task.state = TaskInfoStateRunning ->
                        [m |-> m, inFlight |-> TRUE, err |-> NoErr]
                   [] task.state = TaskInfoStateSuccess ->
                        [m |-> cleared, inFlight |-> FALSE, err |-> NoErr]
                   [] task.state = TaskInfoStateError ->
                        [m |-> cleared, inFlight |-> FALSE, err |-> NoErr]
                   [] OTHER ->
                        [m |-> m, inFlight |-> FALSE, err |-> "unknown task state"]
    IN  Classify(getTask(m), [m EXCEPT !.Status.TaskRef = ""])

\* the two queries of the session; by names the query that was made
FindByBIOSUUID(uuid) ==
    IF fault = "find"
    THEN [found |-> FALSE, err |-> "find failed", by |-> "biosUUID"]
    ELSE IF ~vm.exists \/ vm.biosUUID # uuid
    THEN [found |-> FALSE, err |-> "notfound", by |-> "biosUUID"]
    ELSE [found |-> TRUE, err |-> NoErr, by |-> "biosUUID"]

FindByInstanceUUID(uuid) ==
    IF fault = "find"
    THEN [found |-> FALSE, err |-> "find failed", by |-> "instanceUUID"]
    ELSE IF ~vm.exists \/ vm.instanceUUID # uuid
    THEN [found |-> FALSE, err |-> "notfound", by |-> "instanceUUID"]
    ELSE [found |-> TRUE, err |-> NoErr, by |-> "instanceUUID"]

\* a search that tries the instance UUID when the BIOS UUID finds nothing
findVM_FallsBack(m) ==
    IF m.Spec.ProviderID.set /\ m.Spec.ProviderID.val # <<>>
    THEN LET uuid == ConvertProviderIDToUUID(m.Spec.ProviderID)
         IN  IF uuid = <<>>
             THEN [found |-> FALSE, err |-> "invalid providerID", by |-> "none"]
             ELSE IF FindByBIOSUUID(uuid).err = "notfound"
             THEN FindByInstanceUUID(MachineUID)
             ELSE FindByBIOSUUID(uuid)
    ELSE FindByInstanceUUID(MachineUID)

\* by BIOS UUID when a provider id is assigned, else by instance UUID
findVM(m) ==
    IF m.Spec.ProviderID.set /\ m.Spec.ProviderID.val # <<>>
    THEN LET uuid == ConvertProviderIDToUUID(m.Spec.ProviderID)
         IN  IF uuid = <<>>
             THEN [found |-> FALSE, err |-> "invalid providerID", by |-> "none"]
             ELSE FindByBIOSUUID(uuid)
    ELSE FindByInstanceUUID(MachineUID)

\* the instances and provider ids findVM is called with on its own
FindVMs ==
    {NoVM} \cup {[exists |-> TRUE, poweredOn |-> FALSE, network |-> <<>>,
                  biosUUID |-> u, instanceUUID |-> i] :
                     u \in {GoodUUID, UUIDOf("c")}, i \in {MachineUID, OtherUID}}

FindProviderIDs ==
    {NilString, PtrTo(<<>>), PtrTo(GoodUUID),
     PtrTo(ProviderIDPrefix \o GoodUUID), PtrTo(ProviderIDPrefix \o UUIDOf("c")),
     PtrTo(ProviderIDPrefix \o BadUUID),
     PtrTo(<<"V", "S", "P", "H", "E", "R", "E", ":", "/", "/">> \o GoodUUID)}

NoLookup == [op |-> "none", providerID |-> NilString, res |-> <<>>]

----------------------------------------------------------------------------
(* Completion notifier *)

\* a background unit that runs waitFn for the provider task with this number
Unit(kind, task) ==
    [kind |-> kind, task |-> task, state |-> "blocked", err |-> NoErr]

\* a notifier that runs waitFn and sends the event before it returns
reconcileObjectOnFuncCompletion_Synchronous(bg, unit) ==
    [waits |-> Append(bg.waits, [unit EXCEPT !.state = "done"]),
     events |-> bg.events + 1]

\* starts the goroutine and returns nil; WaitReturn is the goroutine's body
reconcileObjectOnFuncCompletion(bg, unit) ==
    [waits |-> Append(bg.waits, unit), events |-> bg.events]

reconcileObjectOnTaskCompletion(bg, task) ==
    reconcileObjectOnFuncCompletion(bg, Unit("task", task))

reconcileVSphereMachineWhenNetworkIsReady(bg, task) ==
    reconcileObjectOnFuncCompletion(bg, Unit("network", task))

\* no unit is started for a task that getTask does not retrieve
reconcileVSphereMachineOnTaskCompletion(bg, task) ==
    IF fault = "taskQuery" THEN bg
    ELSE reconcileObjectOnTaskCompletion(bg, task)

\* the VM service hands the operation it issued to the notifier
Notify(bg, op, task) ==
    IF op = "poweron" THEN reconcileVSphereMachineWhenNetworkIsReady(bg, task)
    ELSE reconcileVSphereMachineOnTaskCompletion(bg, task)

HasAddress(network) ==
    \E i \in 1..Len(network) : network[i].IPAddrs # <<>>

\* a power-on wait that does not wait for the network address
waitFn_SkipsNetworkWait(unit) ==
    LET Returns(state) ==
            IF state = TaskInfoStateError THEN {"task failed"}
            ELSE IF state # TaskInfoStateSuccess THEN {}
            ELSE {NoErr}
    IN  {"wait failed"} \cup Returns(tasks[unit.task].state)

\* what waitFn can return now: the empty set while it blocks.  WaitForResult
\* reports a failed task as an error; the wait itself can fail at any time.
waitFn(unit) ==
    LET Returns(state) ==
            IF state = TaskInfoStateError THEN {"task failed"}
            ELSE IF state # TaskInfoStateSuccess THEN {}
            ELSE IF unit.kind = "task" THEN {NoErr}
            ELSE IF vm.exists /\ HasAddress(vm.network) THEN {NoErr}
            ELSE {}
    IN  {"wait failed"} \cup Returns(tasks[unit.task].state)

----------------------------------------------------------------------------
(* VM service *)

View(state, network, uuid) ==
    [State |-> state, Network |-> network, BiosUUID |-> uuid]
PendingView == View(VirtualMachineStatePending, <<>>, <<>>)
NoView == View("", <<>>, <<>>)

WithNewTask(m) == [m EXCEPT !.Status.TaskRef = TaskRefOf(issued + 1)]

\* find-or-create: nothing is issued while a task is in flight
ReconcileVM(m) ==
    LET Found(t, f) ==
            IF f.err = "notfound"
            THEN [m |-> WithNewTask(t.m), vm |-> PendingView, err |-> NoErr,
                  op |-> "create"]
            ELSE IF f.err # NoErr
            THEN [m |-> t.m, vm |-> PendingView, err |-> f.err, op |-> "none"]
            ELSE IF ~vm.poweredOn
            THEN [m |-> WithNewTask(t.m), vm |-> PendingView, err |-> NoErr,
                  op |-> "poweron"]
            ELSE [m |-> t.m,
                  vm |-> View(VirtualMachineStateReady, vm.network, vm.biosUUID),
                  err |-> NoErr, op |-> "none"]
        Tracked(t) ==
            IF t.err # NoErr \/ t.inFlight
            THEN [m |-> t.m, vm |-> PendingView, err |-> t.err, op |-> "none"]
            ELSE Found(t, findVM(t.m))
    IN  Tracked(reconcileInFlightTask(m))

\* destroying an absent instance is not an error
DestroyVM(m) ==
    LET Found(t, f) ==
            IF f.err = "notfound"
            THEN [m |-> t.m, vm |-> View(VirtualMachineStateNotFound, <<>>, <<>>),
                  err |-> NoErr, op |-> "none"]
            ELSE IF f.err # NoErr
            THEN [m |-> t.m, vm |-> PendingView, err |-> f.err, op |-> "none"]
            ELSE [m |-> WithNewTask(t.m), vm |-> PendingView, err |-> NoErr,
                  op |-> "destroy"]
        Tracked(t) ==
            IF t.err # NoErr \/ t.inFlight
            THEN [m |-> t.m, vm |-> PendingView, err |-> t.err, op |-> "none"]
            ELSE Found(t, findVM(t.m))
    IN  Tracked(reconcileInFlightTask(m))

----------------------------------------------------------------------------
(* The reconcile steps *)

IPAddrsOf(network) ==
    LET RECURSIVE Collect(_)
        Collect(i) ==
            IF i > Len(network) THEN <<>>
            ELSE [j \in 1..Len(network[i].IPAddrs) |->
                     [Type |-> NodeInternalIP,
                      Address |-> network[i].IPAddrs[j]]] \o Collect(i + 1)
    IN  Collect(1)

\* a network step that projects the interfaces before it compares the counts
reconcileNetwork_AssignsFirst(m, vmView) ==
    LET Projected(m1, ipAddrs) ==
            IF m.Spec.Devices # Len(vmView.Network)
            THEN [m |-> m1, ok |-> FALSE, err |-> "invalid network count"]
            ELSE IF Len(ipAddrs) = 0
            THEN [m |-> m1, ok |-> FALSE, err |-> NoErr]
            ELSE [m |-> [m1 EXCEPT !.Status.Addresses = ipAddrs],
                  ok |-> TRUE, err |-> NoErr]
    IN  Projected([m EXCEPT !.Status.Network = vmView.Network],
                  IPAddrsOf(vmView.Network))

\* a network step that does not wait for an address
reconcileNetwork_NoWait(m, vmView) ==
    LET Projected(m1, ipAddrs) ==
            IF m.Spec.Devices # Len(vmView.Network)
            THEN [m |-> m, ok |-> FALSE, err |-> "invalid network count"]
            ELSE [m |-> [m1 EXCEPT !.Status.Addresses = ipAddrs],
                  ok |-> TRUE, err |-> NoErr]
    IN  Projected([m EXCEPT !.Status.Network = vmView.Network],
                  IPAddrsOf(vmView.Network))

reconcileNetwork(m, vmView) ==
    LET expNetCount == m.Spec.Devices
        actNetCount == Len(vmView.Network)
        Projected(m1, ipAddrs) ==
            IF expNetCount # actNetCount
            THEN [m |-> m, ok |-> FALSE, err |-> "invalid network count"]
            ELSE IF Len(ipAddrs) = 0
            THEN [m |-> m1, ok |-> FALSE, err |-> NoErr]
            ELSE [m |-> [m1 EXCEPT !.Status.Addresses = ipAddrs],
                  ok |-> TRUE, err |-> NoErr]
    IN  Projected([m EXCEPT !.Status.Network = vmView.Network],
                  IPAddrsOf(vmView.Network))

\* a provider-id step that stores the converted id before it validates it
reconcileProviderID_StoresInvalid(m, vmView) ==
    LET Converted(providerID) ==
            IF providerID = <<>>
            THEN [m |-> [m EXCEPT !.Spec.ProviderID = PtrTo(providerID)],
                  err |-> "invalid BIOS UUID"]
            ELSE [m |-> [m EXCEPT !.Spec.ProviderID = PtrTo(providerID)],
                  err |-> NoErr]
    IN  Converted(ConvertUUIDToProviderID(vmView.BiosUUID))

\* a provider-id step that passes over a BIOS UUID it cannot convert
reconcileProviderID_IgnoresInvalid(m, vmView) ==
    LET Converted(providerID) ==
            IF providerID = <<>> THEN [m |-> m, err |-> NoErr]
            ELSE IF ~m.Spec.ProviderID.set \/ m.Spec.ProviderID.val # providerID
            THEN [m |-> [m EXCEPT !.Spec.ProviderID = PtrTo(providerID)],
                  err |-> NoErr]
            ELSE [m |-> m, err |-> NoErr]
    IN  Converted(ConvertUUIDToProviderID(vmView.BiosUUID))

reconcileProviderID(m, vmView) ==
    LET Converted(providerID) ==
            IF providerID = <<>> THEN [m |-> m, err |-> "invalid BIOS UUID"]
            ELSE IF ~m.Spec.ProviderID.set \/ m.Spec.ProviderID.val # providerID
            THEN [m |-> [m EXCEPT !.Spec.ProviderID = PtrTo(providerID)],
                  err |-> NoErr]
            ELSE [m |-> m, err |-> NoErr]
    IN  Converted(ConvertUUIDToProviderID(vmView.BiosUUID))

Result(m, err, ex, cs, v, op) ==
    [m |-> m, err |-> err, exit |-> ex, calls |-> cs, vm |-> v, op |-> op]

\* a deletion step that does not wait for the instance to be gone
reconcileDelete_Eager(m) ==
    LET Destroyed(d) ==
            IF d.err # NoErr
            THEN Result(d.m, "failed to destroy VM", "destroyErr", {"DestroyVM"},
                        d.vm, d.op)
            ELSE Result([d.m EXCEPT !.Finalizers =
                                       Filter(d.m.Finalizers, MachineFinalizer)],
                        NoErr, "finalizerRemoved", {"DestroyVM"}, d.vm, d.op)
    IN  Destroyed(DestroyVM(m))

\* a deletion step that leaves the finalizer where it is
reconcileDelete_KeepsFinalizer(m) ==
    LET Destroyed(d) ==
            IF d.err # NoErr
            THEN Result(d.m, "failed to destroy VM", "destroyErr", {"DestroyVM"},
                        d.vm, d.op)
            ELSE IF d.vm.State # VirtualMachineStateNotFound
            THEN Result(d.m, NoErr, "destroyWait", {"DestroyVM"}, d.vm, d.op)
            ELSE Result(d.m, NoErr, "finalizerRemoved", {"DestroyVM"}, d.vm, d.op)
    IN  Destroyed(DestroyVM(m))

\* a deletion step that marks the machine as not ready while it destroys
reconcileDelete_ClearsReady(m) ==
    LET Destroyed(d) ==
            IF d.err # NoErr
            THEN Result(d.m, "failed to destroy VM", "destroyErr", {"DestroyVM"},
                        d.vm, d.op)
            ELSE IF d.vm.State # VirtualMachineStateNotFound
            THEN Result([d.m EXCEPT !.Status.Ready = FALSE], NoErr, "destroyWait",
                        {"DestroyVM"}, d.vm, d.op)
            ELSE Result([d.m EXCEPT !.Finalizers =
                                       Filter(d.m.Finalizers, MachineFinalizer)],
                        NoErr, "finalizerRemoved", {"DestroyVM"}, d.vm, d.op)
    IN  Destroyed(DestroyVM(m))

reconcileDelete(m) ==
    LET Destroyed(d) ==
            IF d.err # NoErr
            THEN Result(d.m, "failed to destroy VM", "destroyErr", {"DestroyVM"},
                        d.vm, d.op)
            ELSE IF d.vm.State # VirtualMachineStateNotFound
            THEN Result(d.m, NoErr, "destroyWait", {"DestroyVM"}, d.vm, d.op)
            ELSE Result([d.m EXCEPT !.Finalizers =
                                       Filter(d.m.Finalizers, MachineFinalizer)],
                        NoErr, "finalizerRemoved", {"DestroyVM"}, d.vm, d.op)
    IN  Destroyed(DestroyVM(m))

\* an insertion that does not look for the finalizer first
AddFinalizer_Always(m) ==
    [m EXCEPT !.Finalizers = Append(m.Finalizers, MachineFinalizer)]

AddFinalizer(m) ==
    IF ~Contains(m.Finalizers, MachineFinalizer)
    THEN [m EXCEPT !.Finalizers = Append(m.Finalizers, MachineFinalizer)]
    ELSE m

\* an error-state test that looks at the reason only
InErrorState_ReasonOnly(m) == m.Status.ErrorReason # Nil

InErrorState(m) == m.Status.ErrorReason # Nil \/ m.Status.ErrorMessage # Nil

\* a normal path that marks the machine ready while it waits for an address
reconcileNormal_ReadyBeforeAddress(m) ==
    LET WithProviderID(p, r) ==
            IF p.err # NoErr
            THEN Result(p.m, p.err, "providerIDErr", {"ReconcileVM"}, r.vm, r.op)
            ELSE Result([p.m EXCEPT !.Status.Ready = TRUE], NoErr, "ready",
                        {"ReconcileVM"}, r.vm, r.op)
        WithNetwork(n, r) ==
            IF ~n.ok /\ n.err # NoErr
            THEN Result(n.m, n.err, "netErr", {"ReconcileVM"}, r.vm, r.op)
            ELSE IF ~n.ok
            THEN Result([n.m EXCEPT !.Status.Ready = TRUE], NoErr, "waitIP",
                        {"ReconcileVM"}, r.vm, r.op)
            ELSE WithProviderID(reconcileProviderID(n.m, r.vm), r)
        WithVM(r) ==
            IF r.err # NoErr
            THEN Result(r.m, "failed to reconcile VM", "vmErr", {"ReconcileVM"},
                        r.vm, r.op)
            ELSE IF r.vm.State # VirtualMachineStateReady
            THEN Result(r.m, NoErr, "vmNotReady", {"ReconcileVM"}, r.vm, r.op)
            ELSE WithNetwork(reconcileNetwork(r.m, r.vm), r)
        WithFinalizer(m1) ==
            IF precond = "infraNotReady"
            THEN Result(m1, NoErr, "infraNotReady", {}, NoView, "none")
            ELSE IF precond = "noBootstrap"
            THEN Result(m1, NoErr, "noBootstrap", {}, NoView, "none")
            ELSE WithVM(ReconcileVM(m1))
    IN  IF InErrorState(m) THEN Result(m, NoErr, "errorState", {}, NoView, "none")
        ELSE WithFinalizer(AddFinalizer(m))

\* a normal path that looks for the bootstrap data after it reconciled the VM
reconcileNormal_BootstrapAfterVM(m) ==
    LET WithProviderID(p, r) ==
            IF p.err # NoErr
            THEN Result(p.m, p.err, "providerIDErr", {"ReconcileVM"}, r.vm, r.op)
            ELSE Result([p.m EXCEPT !.Status.Ready = TRUE], NoErr, "ready",
                        {"ReconcileVM"}, r.vm, r.op)
        WithNetwork(n, r) ==
            IF ~n.ok /\ n.err # NoErr
            THEN Result(n.m, n.err, "netErr", {"ReconcileVM"}, r.vm, r.op)
            ELSE IF ~n.ok
            THEN Result(n.m, NoErr, "waitIP", {"ReconcileVM"}, r.vm, r.op)
            ELSE WithProviderID(reconcileProviderID(n.m, r.vm), r)
        WithVM(r) ==
            IF r.err # NoErr
            THEN Result(r.m, "failed to reconcile VM", "vmErr", {"ReconcileVM"},
                        r.vm, r.op)
            ELSE IF precond = "noBootstrap"
            THEN Result(r.m, NoErr, "noBootstrap", {"ReconcileVM"}, r.vm, r.op)
            ELSE IF r.vm.State # VirtualMachineStateReady
            THEN Result(r.m, NoErr, "vmNotReady", {"ReconcileVM"}, r.vm, r.op)
            ELSE WithNetwork(reconcileNetwork(r.m, r.vm), r)
        WithFinalizer(m1) ==
            IF precond = "infraNotReady"
            THEN Result(m1, NoErr, "infraNotReady", {}, NoView, "none")
            ELSE WithVM(ReconcileVM(m1))
    IN  IF InErrorState(m) THEN Result(m, NoErr, "errorState", {}, NoView, "none")
        ELSE WithFinalizer(AddFinalizer(m))

reconcileNormal(m) ==
    LET WithProviderID(p, r) ==
            IF p.err # NoErr
            THEN Result(p.m, p.err, "providerIDErr", {"ReconcileVM"}, r.vm, r.op)
            ELSE Result([p.m EXCEPT !.Status.Ready = TRUE], NoErr, "ready",
                        {"ReconcileVM"}, r.vm, r.op)
        WithNetwork(n, r) ==
            IF ~n.ok /\ n.err # NoErr
            THEN Result(n.m, n.err, "netErr", {"ReconcileVM"}, r.vm, r.op)
            ELSE IF ~n.ok
            THEN Result(n.m, NoErr, "waitIP", {"ReconcileVM"}, r.vm, r.op)
            ELSE WithProviderID(reconcileProviderID(n.m, r.vm), r)
        WithVM(r) ==
            IF r.err # NoErr
            THEN Result(r.m, "failed to reconcile VM", "vmErr", {"ReconcileVM"},
                        r.vm, r.op)
            ELSE IF r.vm.State # VirtualMachineStateReady
            THEN Result(r.m, NoErr, "vmNotReady", {"ReconcileVM"}, r.vm, r.op)
            ELSE WithNetwork(reconcileNetwork(r.m, r.vm), r)
        WithFinalizer(m1) ==
            IF precond = "infraNotReady"
            THEN Result(m1, NoErr, "infraNotReady", {}, NoView, "none")
            ELSE IF precond = "noBootstrap"
            THEN Result(m1, NoErr, "noBootstrap", {}, NoView, "none")
            ELSE WithVM(ReconcileVM(m1))
    IN  IF InErrorState(m) THEN Result(m, NoErr, "errorState", {}, NoView, "none")
        ELSE WithFinalizer(AddFinalizer(m))

Preconds == {"infraNotReady", "noBootstrap", "met"}
Faults == {"none", "taskQuery", "find"}

\* the returns of Reconcile that come before the deferred patch is registered;
\* clusterErr and vsphereClusterErr are the fetches of the Cluster and of the
\* VSphereCluster failing with an error other than not-found
EarlyExits == {"getErr", "machineNotFound", "noOwner", "ownerNotFound",
               "ownerErr", "noCluster", "clusterErr", "noVSphereCluster",
               "vsphereClusterErr", "sessionErr", "helperErr"}

\* a fetch that reports a missing machine as an error
EarlyErr_NotFoundFails(ex) ==
    CASE ex \in {"getErr", "machineNotFound"} -> "get failed"
      [] ex = "ownerNotFound" -> "owner machine not found"
      [] ex = "ownerErr" -> "owner machine get failed"
      [] ex = "sessionErr" -> "failed to create vSphere session"
      [] ex = "helperErr" -> "failed to init patch helper"
      [] OTHER -> NoErr

EarlyErr(ex) ==
    CASE ex = "getErr" -> "get failed"
      [] ex = "ownerNotFound" -> "owner machine not found"
      [] ex = "ownerErr" -> "owner machine get failed"
      [] ex = "sessionErr" -> "failed to create vSphere session"
      [] ex = "helperErr" -> "failed to init patch helper"
      [] OTHER -> NoErr

\* the lookups Reconcile makes ahead of the dispatch, in the order of the code
Stages == <<"get", "owner", "cluster", "vsphereCluster", "session", "helper">>

\* the lookups made by the time Reconcile returns through ex
Reached(ex) ==
    LET last == CASE ex \in {"getErr", "machineNotFound"} -> 1
                  [] ex \in {"noOwner", "ownerNotFound", "ownerErr"} -> 2
                  [] ex \in {"noCluster", "clusterErr"} -> 3
                  [] ex \in {"noVSphereCluster", "vsphereClusterErr"} -> 4
                  [] ex = "sessionErr" -> 5
                  [] OTHER -> 6
    IN  {Stages[i] : i \in 1..last}

DeleteExits == {"destroyErr", "destroyWait", "finalizerRemoved"}

Init ==
    /\ \E f \in {<<>>, <<ForeignFinalizer>>} : store = NewMachine(MaxNet, f)
    /\ precond = "infraNotReady"
    /\ fault = "none"
    /\ tasks = <<>>
    /\ issued = 0
    /\ vm = NoVM
    /\ pc = "idle"
    /\ obj = Absent
    /\ before = Absent
    /\ stepErr = NoErr
    /\ patched = "none"
    /\ reterr = NoErr
    /\ exit = "none"
    /\ calls = {}
    /\ view = NoView
    /\ stable = FALSE
    /\ waits = <<>>
    /\ events = 0
    /\ codec = NoCodec
    /\ lookup = NoLookup

----------------------------------------------------------------------------
(* Reconcile *)

\* the returns ahead of the deferred patch: the fetch, the ancestors, the
\* session and the patch helper.  As in ReconcileDispatch, an invocation on
\* a stored machine starts while the store has versions left to hand out.
ReconcileReturnEarly ==
    /\ pc = "idle"
    /\ Exists(store) => store.ResourceVersion < MaxVersion
    /\ \E ex \in EarlyExits :
          /\ ex = "machineNotFound" => ~Exists(store)
          /\ ~Exists(store) => ex \in {"machineNotFound", "getErr"}
          /\ exit' = ex
          /\ reterr' = EarlyErr(ex)
    /\ pc' = "returned"
    /\ UNCHANGED <<fnVars, bgVars, store, envVars, obj, before, stepErr, patched, calls, view,
                   stable>>

\* a dispatch that tests the error state ahead of the deletion timestamp
Step_ErrorStateFirst(m) ==
    IF InErrorState(m) THEN Result(m, NoErr, "errorState", {}, NoView, "none")
    ELSE IF m.DeletionTimestamp THEN reconcileDelete(m)
    ELSE reconcileNormal(m)

Step(m) == IF m.DeletionTimestamp THEN reconcileDelete(m) ELSE reconcileNormal(m)

\* what the dispatched step leaves behind: the local copy, its result and the
\* provider operation it issued
Dispatched(r) ==
    /\ r.op # "none" => issued < MaxTasks
    /\ before' = store
    /\ obj' = r.m
    /\ stepErr' = r.err
    /\ reterr' = r.err
    /\ exit' = r.exit
    /\ calls' = r.calls
    /\ view' = r.vm
    /\ IF r.op = "none" THEN UNCHANGED <<tasks, issued>>
       ELSE /\ issued' = issued + 1
            /\ tasks' = [i \in DOMAIN tasks \cup {issued + 1} |->
                           IF i = issued + 1
                           THEN [kind |-> r.op, state |-> TaskInfoStateQueued]
                           ELSE tasks[i]]
    /\ pc' = "patch"
    /\ stable' = ~store.DeletionTimestamp
    /\ UNCHANGED <<store, precond, fault, vm, patched, fnVars>>

\* the fetch, the patch helper and the machine context, then reconcileDelete
\* or reconcileNormal with the provider operation it issues.  The background
\* units write the event channel only, which no step reads: they are left out
\* here and followed in ReconcileDispatchNotify.
ReconcileDispatch ==
    /\ pc = "idle"
    /\ Exists(store)
    /\ store.ResourceVersion < MaxVersion
    /\ \E r \in {Step(store)} : Dispatched(r)
    /\ UNCHANGED bgVars

\* the same invocation together with the background unit that the VM service
\* starts for the operation it issued
ReconcileDispatchNotify ==
    /\ pc = "idle"
    /\ Exists(store)
    /\ store.ResourceVersion < MaxVersion
    /\ \E r \in {Step(store)} :
           /\ Dispatched(r)
           /\ \E bg \in {IF r.op = "none"
                          THEN [waits |-> waits, events |-> events]
                          ELSE Notify([waits |-> waits, events |-> events],
                                      r.op, issued + 1)} :
                  waits' = bg.waits /\ events' = bg.events

\* what the resource store does with the patch helper's patch
PatchOutcome ==
    IF ~Exists(store) THEN "notfound"
    ELSE IF store.ResourceVersion # before.ResourceVersion THEN "conflict"
    ELSE "ok"

\* the store drops a resource under deletion once its last finalizer is gone
Patched(m) ==
    IF m.DeletionTimestamp /\ m.Finalizers = <<>> THEN Absent
    ELSE [m EXCEPT !.ResourceVersion = @ + 1]

\* a patch that is issued at the end of the function instead of deferred
DeferredPatch_OnlyOnSuccess ==
    /\ pc = "patch"
    /\ patched' = IF stepErr # NoErr THEN "none" ELSE PatchOutcome
    /\ reterr' = IF stepErr = NoErr /\ PatchOutcome # "ok" THEN PatchOutcome
                 ELSE reterr
    /\ store' = IF stepErr = NoErr /\ PatchOutcome = "ok" /\ obj # before
                THEN Patched(obj) ELSE store
    /\ stable' = (stable /\ PatchOutcome = "ok")
    /\ pc' = "poll"
    /\ UNCHANGED <<fnVars, bgVars, envVars, obj, before, stepErr, exit, calls, view>>

\* a deferred patch that only logs the patch error
DeferredPatch_SwallowsError ==
    /\ pc = "patch"
    /\ patched' = PatchOutcome
    /\ reterr' = reterr
    /\ store' = IF PatchOutcome = "ok" /\ obj # before THEN Patched(obj)
                ELSE store
    /\ stable' = (stable /\ PatchOutcome = "ok")
    /\ pc' = "poll"
    /\ UNCHANGED <<fnVars, bgVars, envVars, obj, before, stepErr, exit, calls, view>>

\* a deferred patch whose error replaces the error of the step
DeferredPatch_ErrorReplaces ==
    /\ pc = "patch"
    /\ patched' = PatchOutcome
    /\ reterr' = IF PatchOutcome # "ok" THEN PatchOutcome ELSE reterr
    /\ store' = IF PatchOutcome = "ok" /\ obj # before THEN Patched(obj)
                ELSE store
    /\ stable' = (stable /\ PatchOutcome = "ok")
    /\ pc' = "poll"
    /\ UNCHANGED <<fnVars, bgVars, envVars, obj, before, stepErr, exit, calls, view>>

\* a deferred patch that drops the changes of a step that returned an error
DeferredPatch_RollsBack ==
    /\ pc = "patch"
    /\ patched' = PatchOutcome
    /\ reterr' = IF PatchOutcome # "ok" /\ reterr = NoErr THEN PatchOutcome
                 ELSE reterr
    /\ store' = IF PatchOutcome = "ok" /\ obj # before /\ stepErr = NoErr
                THEN Patched(obj) ELSE store
    /\ stable' = (stable /\ PatchOutcome = "ok")
    /\ pc' = "poll"
    /\ UNCHANGED <<fnVars, bgVars, envVars, obj, before, stepErr, exit, calls, view>>

\* the deferred function up to the poll loop
DeferredPatch ==
    /\ pc = "patch"
    /\ patched' = PatchOutcome
    /\ reterr' = IF PatchOutcome # "ok" /\ reterr = NoErr THEN PatchOutcome
                 ELSE reterr
    /\ store' = IF PatchOutcome = "ok" /\ obj # before THEN Patched(obj)
                ELSE store
    /\ stable' = (stable /\ PatchOutcome = "ok")
    /\ pc' = "poll"
    /\ UNCHANGED <<fnVars, bgVars, envVars, obj, before, stepErr, exit, calls, view>>

\* the loop that waits for a newer resource version: the Get with its exits,
\* then the one-second sleep that leads back to the Get.  The loop has no
\* iteration limit.
PollLoop ==
    /\ \/ /\ pc = "poll"
          /\ \E getOK \in BOOLEAN :
                pc' = IF ~Exists(store) THEN "returned"
                      ELSE IF ~getOK THEN "sleep"
                      ELSE IF obj.ResourceVersion # store.ResourceVersion
                      THEN "returned"
                      ELSE "sleep"
       \/ /\ pc = "sleep"
          /\ pc' = "poll"
    /\ UNCHANGED <<fnVars, bgVars, store, envVars, obj, before, stepErr, patched, reterr,
                   exit, calls, view, stable>>

\* the invocation is over; the controller waits for the next event
ReconcileDone ==
    /\ pc = "returned"
    /\ pc' = "idle"
    /\ obj' = Absent
    /\ before' = Absent
    /\ stepErr' = NoErr
    /\ patched' = "none"
    /\ reterr' = NoErr
    /\ exit' = "none"
    /\ calls' = {}
    /\ view' = NoView
    /\ UNCHANGED <<fnVars, bgVars, store, envVars, stable>>

----------------------------------------------------------------------------
(* The other writers of the resource *)

Bump(m) == [m EXCEPT !.ResourceVersion = @ + 1]

CanWrite ==
    /\ Exists(store)
    /\ store.ResourceVersion < MaxVersion
    /\ pc \in {"idle", "patch", "poll", "sleep"}

\* another agent changes metadata the loop does not look at
ExternalTouch ==
    /\ CanWrite
    /\ store' = Bump(store)
    /\ stable' = FALSE
    /\ UNCHANGED <<fnVars, bgVars, envVars, runVars>>

\* another agent marks the resource as failed, or clears the mark
ExternalSetError ==
    /\ CanWrite
    /\ \E r \in {<<Nil, Nil>>, <<"InvalidConfiguration", Nil>>, <<Nil, "bad config">>} :
          /\ <<store.Status.ErrorReason, store.Status.ErrorMessage>> # r
          /\ store' = Bump([store EXCEPT !.Status.ErrorReason = r[1],
                                         !.Status.ErrorMessage = r[2]])
    /\ stable' = FALSE
    /\ UNCHANGED <<fnVars, bgVars, envVars, runVars>>

\* a delete request: the store removes the resource once no finalizer is left
ExternalDelete ==
    /\ CanWrite
    /\ ~store.DeletionTimestamp
    /\ store' = IF store.Finalizers = <<>> THEN Absent
                ELSE Bump([store EXCEPT !.DeletionTimestamp = TRUE])
    /\ stable' = FALSE
    /\ UNCHANGED <<fnVars, bgVars, envVars, runVars>>

----------------------------------------------------------------------------
(* The environment: ancestors and provider.  Only the dispatched step reads *)
(* them, so their changes are taken between invocations.                    *)

\* the cluster's infrastructure becomes ready, then the bootstrap data arrives
SetPrecond ==
    /\ pc = "idle"
    /\ precond # "met"
    /\ precond' = IF precond = "infraNotReady" THEN "noBootstrap" ELSE "met"
    /\ stable' = FALSE
    /\ UNCHANGED <<fnVars, bgVars, store, fault, tasks, issued, vm, runVars>>

SetFault ==
    /\ pc = "idle"
    /\ \E f \in Faults \ {fault} : fault' = f
    /\ stable' = FALSE
    /\ UNCHANGED <<fnVars, bgVars, store, precond, tasks, issued, vm, runVars>>

Nic(ips) == [IPAddrs |-> ips]

\* what the completed operation leaves behind
Effect(kind) ==
    CASE kind = "create" ->
            \E n \in 1..MaxNet, u \in BiosUUIDs :
               vm' = [exists |-> TRUE, poweredOn |-> FALSE,
                      network |-> [i \in 1..n |-> Nic(<<>>)], biosUUID |-> u,
                      instanceUUID |-> MachineUID]
      [] kind = "poweron" -> vm' = [vm EXCEPT !.poweredOn = vm.exists]
      [] OTHER -> vm' = NoVM

\* a task of the provider moves on, whatever the reconciler is doing
TaskStep ==
    /\ \E i \in DOMAIN tasks, s \in TaskStates :
          /\ \/ tasks[i].state = TaskInfoStateQueued /\ s = TaskInfoStateRunning
             \/ tasks[i].state = TaskInfoStateRunning
                  /\ s \in {TaskInfoStateSuccess, TaskInfoStateError, TaskInfoStateOther}
             \/ tasks[i].state = TaskInfoStateOther /\ s = TaskInfoStateRunning
          /\ tasks' = [tasks EXCEPT ![i].state = s]
          /\ IF s = TaskInfoStateSuccess THEN Effect(tasks[i].kind)
             ELSE UNCHANGED vm
    /\ stable' = FALSE
    /\ UNCHANGED <<fnVars, bgVars, store, precond, fault, issued, runVars>>

TaskProgress ==
    /\ pc = "idle"
    /\ TaskStep

\* the provider does not wait for the invocation to return
TaskProgressInPoll ==
    /\ pc \in {"poll", "sleep"}
    /\ TaskStep

\* an interface of the powered-on instance gains or loses its address
NetworkStep ==
    /\ vm.exists /\ vm.poweredOn
    /\ \E i \in 1..Len(vm.network), ip \in IPAddrPool :
          vm' = [vm EXCEPT !.network[i] =
                    IF @.IPAddrs = <<>> THEN Nic(<<ip>>) ELSE Nic(<<>>)]
    /\ stable' = FALSE
    /\ UNCHANGED <<fnVars, bgVars, store, precond, fault, tasks, issued, runVars>>

NetworkChange ==
    /\ pc = "idle"
    /\ NetworkStep

NetworkChangeInPoll ==
    /\ pc \in {"poll", "sleep"}
    /\ NetworkStep

----------------------------------------------------------------------------
(* The background units *)

\* a goroutine that sends the event whatever waitFn returned
WaitReturn_SignalsAlways ==
    /\ \E i \in 1..Len(waits) :
          /\ waits[i].state = "blocked"
          /\ \E err \in waitFn(waits[i]) :
                /\ waits' = [waits EXCEPT ![i].state = "done", ![i].err = err]
                /\ events' = events + 1
    /\ UNCHANGED <<store, envVars, runVars, stable, fnVars>>

\* a goroutine that clears the task reference of the stored machine itself
WaitReturn_ClearsTaskRef ==
    /\ \E i \in 1..Len(waits) :
          /\ waits[i].state = "blocked"
          /\ \E err \in waitFn(waits[i]) :
                /\ waits' = [waits EXCEPT ![i].state = "done", ![i].err = err]
                /\ events' = IF err # NoErr THEN events ELSE events + 1
    /\ store' = IF Exists(store) THEN [store EXCEPT !.Status.TaskRef = ""]
                ELSE store
    /\ UNCHANGED <<envVars, runVars, stable, fnVars>>

\* waitFn returns in one of the goroutines: the error is logged, or the
\* GenericEvent is sent
WaitReturn ==
    /\ \E i \in 1..Len(waits) :
          /\ waits[i].state = "blocked"
          /\ \E err \in waitFn(waits[i]) :
                /\ waits' = [waits EXCEPT ![i].state = "done", ![i].err = err]
                /\ events' = IF err # NoErr THEN events ELSE events + 1
    /\ UNCHANGED <<store, envVars, runVars, stable, fnVars>>

----------------------------------------------------------------------------
(* Calls of the identifier codec *)

CallConvertUUIDToProviderID ==
    /\ codec = NoCodec
    /\ \E u \in UUIDInputs :
          codec' = [op |-> "encode", arg |-> PtrTo(u),
                    res |-> ConvertUUIDToProviderID(u)]
    /\ UNCHANGED <<store, envVars, runVars, stable, bgVars, lookup>>

CallConvertProviderIDToUUID ==
    /\ codec = NoCodec
    /\ \E p \in ProviderIDInputs :
          codec' = [op |-> "decode", arg |-> p,
                    res |-> ConvertProviderIDToUUID(p)]
    /\ UNCHANGED <<store, envVars, runVars, stable, bgVars, lookup>>

\* the result of the encoder is handed to the decoder
CallRoundTrip ==
    /\ codec.op = "encode"
    /\ codec' = [op |-> "roundtrip", arg |-> codec.arg,
                 res |-> ConvertProviderIDToUUID(PtrTo(codec.res))]
    /\ UNCHANGED <<store, envVars, runVars, stable, bgVars, lookup>>

----------------------------------------------------------------------------
(* Calls of findVM on its own *)

\* the provider holds some instance, and its queries work or fail
FindSetup ==
    /\ lookup = NoLookup /\ vm = NoVM /\ fault = "none"
    /\ \E v \in FindVMs, f \in {"none", "find"} :
          /\ <<v, f>> # <<vm, fault>>
          /\ vm' = v
          /\ fault' = f
    /\ UNCHANGED <<store, precond, tasks, issued, runVars, stable, bgVars, fnVars>>

CallFindVM ==
    /\ lookup = NoLookup
    /\ \E p \in FindProviderIDs :
          lookup' = [op |-> "findVM", providerID |-> p,
                     res |-> findVM([store EXCEPT !.Spec.ProviderID = p])]
    /\ UNCHANGED <<store, envVars, runVars, stable, bgVars, codec>>

----------------------------------------------------------------------------
(* A machine that an earlier run of the loop left ready *)

\* the interfaces of an instance, each with one address
Addressed(n) == [i \in 1..n |-> Nic(<<CHOOSE ip \in IPAddrPool : TRUE>>)]

\* the machine after the run that ended in "ready": finalizer, provider id,
\* projected network and Ready
ReadyMachine(finalizers) ==
    [NewMachine(MaxNet, finalizers) EXCEPT
        !.Spec.ProviderID = PtrTo(ConvertUUIDToProviderID(GoodUUID)),
        !.Status.Network = Addressed(MaxNet),
        !.Status.Addresses = IPAddrsOf(Addressed(MaxNet)),
        !.Status.Ready = TRUE]

\* the loop starts on a ready machine whose instance runs; the instance has
\* the interfaces the machine asks for, or fewer
InitSteady ==
    /\ \E f \in {<<MachineFinalizer>>, <<ForeignFinalizer, MachineFinalizer>>} :
          store = ReadyMachine(f)
    /\ precond = "met"
    /\ fault = "none"
    /\ tasks = <<>>
    /\ issued = 0
    /\ \E n \in 1..MaxNet :
          vm = [exists |-> TRUE, poweredOn |-> TRUE, network |-> Addressed(n),
                biosUUID |-> GoodUUID, instanceUUID |-> MachineUID]
    /\ pc = "idle"
    /\ obj = Absent
    /\ before = Absent
    /\ stepErr = NoErr
    /\ patched = "none"
    /\ reterr = NoErr
    /\ exit = "none"
    /\ calls = {}
    /\ view = NoView
    /\ stable = FALSE
    /\ waits = <<>>
    /\ events = 0
    /\ codec = NoCodec
    /\ lookup = NoLookup

Next ==
    \/ ReconcileReturnEarly
    \/ ReconcileDispatch
    \/ DeferredPatch
    \/ PollLoop
    \/ ReconcileDone
    \/ ExternalTouch
    \/ ExternalSetError
    \/ ExternalDelete
    \/ SetPrecond
    \/ SetFault
    \/ TaskProgress
    \/ NetworkChange

Spec == Init /\ [][Next]_vars

\* the invocation's goroutine keeps running: a poll iteration that can be
\* made is made.  Nothing obliges the other writers to write.
SpecPoll == Init /\ [][Next]_vars /\ WF_vars(PollLoop)

\* the reconciler together with the background units it starts
NextNotify ==
    \/ ReconcileDispatchNotify
    \/ DeferredPatch
    \/ PollLoop
    \/ ReconcileDone
    \/ ExternalTouch
    \/ ExternalDelete
    \/ SetPrecond
    \/ TaskProgress
    \/ NetworkChange
    \/ WaitReturn

SpecNotify == Init /\ [][NextNotify]_vars

\* the codec called on its own, on every input string
NextCodec ==
    \/ CallConvertUUIDToProviderID
    \/ CallConvertProviderIDToUUID
    \/ CallRoundTrip

SpecCodec == Init /\ [][NextCodec]_vars

\* the loop on a machine that is ready when it starts, with its ancestors
\* in place
NextSteady ==
    \/ ReconcileDispatch
    \/ DeferredPatch
    \/ PollLoop
    \/ ReconcileDone
    \/ ExternalTouch
    \/ ExternalDelete
    \/ SetFault
    \/ TaskProgress
    \/ NetworkChange

SpecSteady == InitSteady /\ [][NextSteady]_vars

\* an invocation that has run its step goes on to its deferred patch
SpecSteadyFair == InitSteady /\ [][NextSteady]_vars /\ WF_vars(DeferredPatch)

\* the loop as the only writer of the machine, with a provider that
\* works on while an invocation sits in its poll loop
NextConverge ==
    \/ ReconcileDispatch
    \/ DeferredPatch
    \/ PollLoop
    \/ ReconcileDone
    \/ SetPrecond
    \/ TaskProgress
    \/ NetworkChange
    \/ TaskProgressInPoll
    \/ NetworkChangeInPoll

\* the iteration of the poll loop that leaves it
PollLeaves == PollLoop /\ pc' = "returned"

\* events keep coming and each part of an invocation that can run does run;
\* the Get of the poll loop does not fail for ever, so a loop that can be
\* left again and again is left
SpecConverge ==
    /\ Init /\ [][NextConverge]_vars
    /\ WF_vars(ReconcileDispatch) /\ WF_vars(DeferredPatch)
    /\ WF_vars(PollLoop) /\ SF_vars(PollLeaves) /\ WF_vars(ReconcileDone)

\* findVM called on its own, for every instance and provider id
NextFind ==
    \/ FindSetup
    \/ CallFindVM

SpecFind == Init /\ [][NextFind]_vars

----------------------------------------------------------------------------
(* Properties *)

Deleting == before.DeletionTimestamp
AfterStep == pc = "patch"
HasFinalizer(m) == Contains(m.Finalizers, MachineFinalizer)

\* C1 (as stated): every invocation that fetched the machine has attempted a
\* patch by the time it returns, early returns for a missing ancestor or a
\* failed session included.
C1_PatchAfterEveryFetch ==
    (pc = "returned" /\ exit \notin {"getErr", "machineNotFound"})
        => patched # "none"

\* C1 (amended): an invocation that got as far as the patch helper attempts a
\* patch before it returns, however the dispatched step ended; an invocation
\* that returns before that point attempts none.
C1_PatchAfterDispatch ==
    pc = "returned" => (patched # "none" <=> exit \notin EarlyExits)

C1_Witness ==
    pc = "returned" /\ stepErr # NoErr /\ patched # "none"

\* C2 (as stated): a patch attempt holding a stale version token fails with a
\* conflict, leaves the stored resource alone, and the conflict is the error
\* Reconcile reports.
C2_StaleReportsConflict ==
    (pc \in {"poll", "sleep", "returned"} /\ patched = "conflict")
        => reterr = "conflict"

\* C2 (amended): the stale attempt fails with a conflict and leaves the stored
\* resource alone; Reconcile reports the conflict unless the step itself had
\* already returned an error, which is then the one reported.
C2_StalePatchRejected ==
    [][(pc = "patch" /\ pc' = "poll" /\ Exists(store)
          /\ store.ResourceVersion # before.ResourceVersion)
       => /\ patched' = "conflict"
          /\ store' = store
          /\ reterr' = IF stepErr = NoErr THEN "conflict" ELSE stepErr]_vars

C2_Witness ==
    /\ pc = "poll" /\ patched = "conflict" /\ reterr = "conflict"
    /\ obj.Status # before.Status
    /\ Exists(store) /\ store.Status # before.Status

\* C3: a normal-path step that runs again, with provider, preconditions and
\* stored resource as the previous normal-path step and its patch left them,
\* changes neither Status, finalizers nor provider id and issues no operation.
C3_NormalStepIdempotent ==
    [][(pc = "idle" /\ pc' = "patch" /\ stable /\ ~store.DeletionTimestamp)
       => /\ obj'.Status = store.Status
          /\ obj'.Finalizers = store.Finalizers
          /\ obj'.Spec.ProviderID = store.Spec.ProviderID
          /\ issued' = issued]_vars

\* C4: with a stored task reference whose task the provider reports queued or
\* running, reconcileInFlightTask returns (true, nil) and the reference stays.
C4_RunningTaskKept ==
    (AfterStep /\ before.Status.TaskRef # "" /\ getTask(before).found
       /\ getTask(before).state \in {TaskInfoStateQueued, TaskInfoStateRunning})
        => LET r == reconcileInFlightTask(before)
           IN  /\ r.inFlight
               /\ r.err = NoErr
               /\ r.m.Status.TaskRef = before.Status.TaskRef
               /\ r.m = before

C4_Witness ==
    /\ AfterStep /\ "ReconcileVM" \in calls
    /\ getTask(before).found /\ getTask(before).state = TaskInfoStateRunning
    /\ obj.Status.TaskRef = before.Status.TaskRef

\* C5: with a stored task reference whose task is reported success or error,
\* or cannot be retrieved, reconcileInFlightTask empties the reference and
\* returns (false, nil); in no other case does it change the reference.
C5_FinishedTaskCleared ==
    (AfterStep /\ before.Status.TaskRef # "")
        => LET t == getTask(before)
               r == reconcileInFlightTask(before)
               over == ~t.found \/ t.state \in {TaskInfoStateSuccess,
                                                TaskInfoStateError}
           IN  /\ over => (r.m.Status.TaskRef = "" /\ ~r.inFlight /\ r.err = NoErr)
               /\ ~over => r.m.Status.TaskRef = before.Status.TaskRef

C5_Witness ==
    /\ AfterStep /\ calls # {} /\ before.Status.TaskRef # ""
    /\ getTask(before).found /\ getTask(before).state = TaskInfoStateError
    /\ obj.Status.TaskRef # before.Status.TaskRef

\* C6: in the deletion path, a view in state notfound takes the lifecycle
\* finalizer off the list (the other finalizers stay); any other state leaves
\* the list as it was and the step returns no error.
C6_FinalizerFollowsNotFound ==
    (AfterStep /\ Deleting /\ stepErr # "failed to destroy VM")
        => IF view.State = VirtualMachineStateNotFound
           THEN /\ ~HasFinalizer(obj)
                /\ Contains(obj.Finalizers, ForeignFinalizer)
                     = Contains(before.Finalizers, ForeignFinalizer)
           ELSE /\ obj.Finalizers = before.Finalizers
                /\ stepErr = NoErr

C6_Witness ==
    /\ AfterStep /\ Deleting /\ view.State = VirtualMachineStateNotFound
    /\ HasFinalizer(before) /\ ~HasFinalizer(obj)

\* C7: the normal path on a resource with an error reason or an error message
\* returns no error, calls no provider operation and changes nothing.
C7_ErrorStateSkipped ==
    [][(pc = "idle" /\ pc' = "patch" /\ ~store.DeletionTimestamp
          /\ (store.Status.ErrorReason # Nil \/ store.Status.ErrorMessage # Nil))
       => /\ obj' = store
          /\ stepErr' = NoErr
          /\ calls' = {}
          /\ UNCHANGED <<tasks, issued, vm>>]_vars

C7_Witness ==
    /\ AfterStep /\ ~Deleting /\ before.Status.ErrorMessage # Nil
    /\ precond = "met" /\ ~HasFinalizer(before) /\ obj = before

C9_NetworkCountMismatch ==
    (AfterStep /\ ~Deleting /\ view.State = VirtualMachineStateReady
       /\ Len(view.Network) # before.Spec.Devices)
        => /\ stepErr = "invalid network count"
           /\ reterr = stepErr
           /\ obj.Status.Ready = before.Status.Ready
           /\ obj.Status.Network = before.Status.Network
           /\ obj.Status.Addresses = before.Status.Addresses

C9_Witness ==
    /\ AfterStep /\ ~Deleting /\ view.State = VirtualMachineStateReady
    /\ Len(view.Network) < before.Spec.Devices
    /\ stepErr = "invalid network count"

NoAddressView ==
    /\ view.State = VirtualMachineStateReady
    /\ Len(view.Network) = before.Spec.Devices
    /\ \A i \in 1..Len(view.Network) : view.Network[i].IPAddrs = <<>>

\* C10 (as stated): a ready view with matching counts and no address ends
\* the normal path without error, Ready stays false, and Status.Addresses,
\* the finalizer list and the provider id do not change.
C10_NoAddressNoChange ==
    (AfterStep /\ ~Deleting /\ NoAddressView)
        => /\ stepErr = NoErr
           /\ ~before.Status.Ready => ~obj.Status.Ready
           /\ obj.Status.Addresses = before.Status.Addresses
           /\ obj.Finalizers = before.Finalizers
           /\ obj.Spec.ProviderID = before.Spec.ProviderID

\* C10 (amended): as stated, except that the finalizer list gains the
\* lifecycle finalizer when it was missing; nothing else in the list changes.
C10_NoAddressWaits ==
    (AfterStep /\ ~Deleting /\ NoAddressView)
        => /\ stepErr = NoErr
           /\ obj.Status.Ready = before.Status.Ready
           /\ obj.Status.Addresses = before.Status.Addresses
           /\ obj.Finalizers = IF HasFinalizer(before) THEN before.Finalizers
                               ELSE Append(before.Finalizers, MachineFinalizer)
           /\ obj.Spec.ProviderID = before.Spec.ProviderID

C10_Witness ==
    /\ AfterStep /\ ~Deleting /\ NoAddressView /\ exit = "waitIP"
    /\ ~obj.Status.Ready /\ HasFinalizer(before)

\* C11: after the patch attempt the poll ends: an invocation that has entered
\* the poll loop returns, also when its patch changed nothing and when the
\* fetches of the loop keep failing.
C11_PollReturns ==
    (pc \in {"poll", "sleep"}) ~> (pc = "returned")

\* C15: when the exit patch fails, Reconcile reports the patch error if and
\* only if the dispatched step returned none; the error of the step is never
\* replaced by the patch error.
C15_PatchErrorOnlyIfNone ==
    (pc \in {"poll", "sleep", "returned"} /\ patched \notin {"none", "ok"})
        => reterr = IF stepErr = NoErr THEN patched ELSE stepErr

C15_Witness ==
    /\ pc = "poll" /\ patched = "notfound"
    /\ stepErr # NoErr /\ reterr = stepErr

\* C16: when the fetch finds no machine, Reconcile returns no error after the
\* fetch alone: no ancestor lookup, no provider call, no patch; any other
\* fetch failure is the error Reconcile returns.
C16_AbsentMachineIgnored ==
    /\ (pc = "returned" /\ exit = "machineNotFound")
          => /\ reterr = NoErr
             /\ Reached(exit) = {"get"}
             /\ calls = {} /\ patched = "none" /\ ~Exists(obj)
    /\ (pc = "returned" /\ exit = "getErr")
          => /\ reterr = "get failed"
             /\ Reached(exit) = {"get"}
             /\ calls = {} /\ patched = "none"

C16_Witness ==
    /\ pc = "returned" /\ exit = "machineNotFound" /\ reterr = NoErr
    /\ ~Exists(store) /\ issued > 0

AncestorExits == {"noOwner", "ownerNotFound", "noCluster", "noVSphereCluster"}

\* C17: when the owning Machine, the Cluster or the VSphereCluster is absent,
\* Reconcile returns no error, opens no session, makes no provider call and
\* runs neither path.
C17_AbsentAncestorIgnored ==
    (pc = "returned" /\ exit \in AncestorExits)
        => /\ reterr = NoErr
           /\ "session" \notin Reached(exit)
           /\ calls = {} /\ patched = "none" /\ ~Exists(obj)

\* C18: a resource with a deletion timestamp takes the deletion path only,
\* error reason or not: no finalizer is added and Ready is not set; a resource
\* without one takes the normal path only and DestroyVM is not called.
C18_DispatchOnDeletionOnly ==
    AfterStep
        => IF Deleting
           THEN /\ exit \in DeleteExits
                /\ calls = {"DestroyVM"}
                /\ HasFinalizer(obj) => HasFinalizer(before)
                /\ obj.Status.Ready = before.Status.Ready
           ELSE /\ exit \notin DeleteExits
                /\ "DestroyVM" \notin calls

C18_Witness ==
    /\ AfterStep /\ Deleting /\ before.Status.ErrorReason # Nil
    /\ calls = {"DestroyVM"} /\ exit = "finalizerRemoved"

\* C19: with the provider's task state unchanged, a second call of
\* reconcileInFlightTask returns what the first returned and leaves the task
\* reference the first left; a call changes nothing but the task reference.
C19_TrackerIdempotent ==
    (AfterStep /\ calls # {})
        => LET r1 == reconcileInFlightTask(before)
               r2 == reconcileInFlightTask(r1.m)
           IN  /\ r2.inFlight = r1.inFlight
               /\ r2.err = r1.err
               /\ r2.m = r1.m
               /\ r1.m \in {before, [before EXCEPT !.Status.TaskRef = ""]}

C19_Witness ==
    /\ AfterStep /\ calls # {}
    /\ getTask(before).found /\ getTask(before).state = TaskInfoStateSuccess
    /\ reconcileInFlightTask(before).m # before

\* C20: getTask answers absent without a provider query when no task
\* reference is stored; with a reference it queries the provider once, and a
\* failed query is answered as absent, so that its caller returns no error.
C20_TaskLookupFailsOpen ==
    (AfterStep /\ calls # {})
        => LET t == getTask(before)
           IN  /\ before.Status.TaskRef = "" => (~t.found /\ t.queries = 0)
               /\ before.Status.TaskRef # "" => t.queries = 1
               /\ (before.Status.TaskRef # "" /\ fault = "taskQuery")
                     => /\ ~t.found
                        /\ reconcileInFlightTask(before).err = NoErr

C20_Witness ==
    /\ AfterStep /\ calls # {} /\ before.Status.TaskRef # ""
    /\ fault = "taskQuery" /\ getTask(before).queries = 1 /\ stepErr = NoErr

\* C21: when the provider reports a task state other than queued, running,
\* success or error, reconcileInFlightTask returns (false, error) and leaves
\* the stored task reference as it was; the step that called it fails.
C21_UnknownStateIsError ==
    (AfterStep /\ calls # {} /\ getTask(before).found
       /\ getTask(before).state \notin {TaskInfoStateQueued, TaskInfoStateRunning,
                                        TaskInfoStateSuccess, TaskInfoStateError})
        => LET r == reconcileInFlightTask(before)
           IN  /\ r.err = "unknown task state"
               /\ ~r.inFlight
               /\ r.m.Status.TaskRef = before.Status.TaskRef
               /\ stepErr # NoErr
               /\ obj.Status.TaskRef = before.Status.TaskRef

C21_Witness ==
    /\ AfterStep /\ "ReconcileVM" \in calls /\ getTask(before).found
    /\ getTask(before).state = TaskInfoStateOther
    /\ stepErr = "failed to reconcile VM" /\ obj.Status.TaskRef # ""

Returned == {i \in 1..Len(waits) : waits[i].state = "done"}

\* the shape of a UUID: 8-4-4-4-12 hexadecimal digits of either case
UUIDShape(u) ==
    /\ Len(u) = 36
    /\ \A i \in 1..36 :
          IF i \in {9, 14, 19, 24} THEN u[i] = "-"
          ELSE u[i] \in {"0", "1", "2", "3", "4", "5", "6", "7", "8", "9",
                         "a", "b", "c", "d", "e", "f",
                         "A", "B", "C", "D", "E", "F"}

\* the spellings of the scheme prefix the pattern takes for "vsphere://"
SchemeSpellings ==
    <<{"v", "V"}, {"s", "S", LongS}, {"p", "P"}, {"h", "H"}, {"e", "E"},
      {"r", "R"}, {"e", "E"}, {":"}, {"/"}, {"/"}>>

WellFormedID(p) ==
    /\ p.set
    /\ Len(p.val) = 46
    /\ \A i \in 1..10 : p.val[i] \in SchemeSpellings[i]
    /\ UUIDShape(SubSeq(p.val, 11, 46))

\* C22: the decoder applied to the encoder's result gives back every string
\* of UUID shape; the encoder gives the prefixed string for a UUID shape and
\* the empty string for anything else; the decoder gives the UUID part of a
\* well-formed provider id and the empty string for nil, the empty string, a
\* wrong shape or a wrong prefix.
C22_CodecRoundTrips ==
    /\ codec.op = "encode"
          => codec.res = IF UUIDShape(codec.arg.val)
                         THEN <<"v", "s", "p", "h", "e", "r", "e", ":", "/", "/">>
                                 \o codec.arg.val
                         ELSE <<>>
    /\ codec.op = "roundtrip"
          => codec.res = IF UUIDShape(codec.arg.val) THEN codec.arg.val ELSE <<>>
    /\ codec.op = "decode"
          => codec.res = IF WellFormedID(codec.arg)
                         THEN SubSeq(codec.arg.val, 11, 46) ELSE <<>>

C22_Witness ==
    /\ codec.op = "roundtrip" /\ UUIDShape(codec.arg.val)
    /\ \E i \in 1..36 : codec.arg.val[i] = "F"
    /\ codec.res = codec.arg.val

\* C23: a normal-path run sets Ready only when, in that run, the view was
\* ready, the interface count matched the device count, at least one address
\* was projected into Status.Addresses and the provider id was converted from
\* a BIOS UUID of UUID shape; a run whose view is not ready stops without
\* error and leaves Status.Network, Status.Addresses, the provider id and
\* Ready as they were.
C23_ReadyOnlyWhenComplete ==
    (AfterStep /\ ~Deleting)
        => /\ obj.Status.Ready # before.Status.Ready => exit = "ready"
           /\ (obj.Status.Ready /\ (~before.Status.Ready \/ exit = "ready"))
                 => /\ view.State = VirtualMachineStateReady
                    /\ Len(view.Network) = before.Spec.Devices
                    /\ obj.Status.Addresses # <<>>
                    /\ obj.Status.Addresses = IPAddrsOf(view.Network)
                    /\ UUIDShape(view.BiosUUID)
                    /\ obj.Spec.ProviderID
                         = PtrTo(<<"v", "s", "p", "h", "e", "r", "e", ":", "/", "/">>
                                   \o view.BiosUUID)
                    /\ stepErr = NoErr
           /\ ("ReconcileVM" \in calls /\ exit # "vmErr"
                  /\ view.State # VirtualMachineStateReady)
                 => /\ exit = "vmNotReady"
                    /\ stepErr = NoErr
                    /\ obj.Status.Network = before.Status.Network
                    /\ obj.Status.Addresses = before.Status.Addresses
                    /\ obj.Spec.ProviderID = before.Spec.ProviderID
                    /\ obj.Status.Ready = before.Status.Ready

C23_Witness ==
    /\ AfterStep /\ ~Deleting /\ ~before.Status.Ready /\ obj.Status.Ready
    /\ obj.Status.Addresses # <<>> /\ obj.Spec.ProviderID.set

Occurrences(list, str) == Cardinality({i \in 1..Len(list) : list[i] = str})

\* C24: after a normal-path run on a resource without error state the
\* lifecycle finalizer is in the list exactly once: appended when it was
\* missing, the list untouched when it was there, and this also when the run
\* stopped on an unmet precondition.
C24_FinalizerExactlyOnce ==
    (AfterStep /\ ~Deleting /\ before.Status.ErrorReason = Nil
       /\ before.Status.ErrorMessage = Nil)
        => /\ Occurrences(obj.Finalizers, MachineFinalizer) = 1
           /\ obj.Finalizers = IF HasFinalizer(before) THEN before.Finalizers
                               ELSE Append(before.Finalizers, MachineFinalizer)

C24_Witness ==
    /\ AfterStep /\ ~Deleting /\ exit = "noBootstrap"
    /\ HasFinalizer(before) /\ obj.Finalizers = before.Finalizers
    /\ Occurrences(obj.Finalizers, MachineFinalizer) = 1
    /\ Len(obj.Finalizers) = 2

\* C25: while the cluster infrastructure is not ready or the bootstrap data is
\* missing, the normal path on a resource without error state returns no
\* error, does not call ReconcileVM and leaves Status as it was.
C25_UnmetPreconditionWaits ==
    (AfterStep /\ ~Deleting /\ precond # "met"
       /\ before.Status.ErrorReason = Nil /\ before.Status.ErrorMessage = Nil)
        => /\ exit = precond
           /\ stepErr = NoErr /\ reterr = NoErr
           /\ calls = {}
           /\ view = NoView
           /\ obj.Status = before.Status

C25_Witness ==
    /\ AfterStep /\ ~Deleting /\ precond = "noBootstrap" /\ exit = "noBootstrap"
    /\ calls = {} /\ stepErr = NoErr /\ ~HasFinalizer(before)

\* the run got as far as the provider-id step
ProviderIDStepRan ==
    /\ view.State = VirtualMachineStateReady
    /\ Len(view.Network) = before.Spec.Devices
    /\ IPAddrsOf(view.Network) # <<>>

\* C26: when the view's BIOS UUID does not convert to a provider id, the
\* provider-id step returns an error, the provider id and Ready stay as they
\* were; otherwise the provider id is the converted value after the step.
C26_ProviderIDStep ==
    (AfterStep /\ ~Deleting /\ ProviderIDStepRan)
        => IF ~UUIDShape(view.BiosUUID)
           THEN /\ exit = "providerIDErr"
                /\ stepErr = "invalid BIOS UUID"
                /\ obj.Spec.ProviderID = before.Spec.ProviderID
                /\ obj.Status.Ready = before.Status.Ready
           ELSE /\ exit = "ready"
                /\ stepErr = NoErr
                /\ obj.Spec.ProviderID.set
                /\ obj.Spec.ProviderID.val
                     = <<"v", "s", "p", "h", "e", "r", "e", ":", "/", "/">>
                         \o view.BiosUUID
                /\ (before.Spec.ProviderID = obj.Spec.ProviderID
                      \/ ~before.Spec.ProviderID.set
                      \/ before.Spec.ProviderID.val # obj.Spec.ProviderID.val)

C26_Witness ==
    /\ AfterStep /\ ~Deleting /\ ProviderIDStepRan
    /\ ~UUIDShape(view.BiosUUID) /\ exit = "providerIDErr"
    /\ ~obj.Spec.ProviderID.set /\ ~obj.Status.Ready

\* C29: with a non-empty provider id findVM queries by BIOS UUID and never by
\* instance UUID: a malformed id is an invalid-provider-id error, no instance
\* with that BIOS UUID is a not-found error; with no provider id it queries
\* by the instance UUID that is the Machine's UID.
C29_FindByProviderIDFirst ==
    lookup.op = "findVM"
        => LET p == lookup.providerID
               r == lookup.res
           IN  IF p.set /\ p.val # <<>>
               THEN /\ r.by # "instanceUUID"
                    /\ IF ~WellFormedID(p)
                       THEN ~r.found /\ r.err = "invalid providerID" /\ r.by = "none"
                       ELSE /\ r.by = "biosUUID"
                            /\ fault = "none"
                                 => /\ r.found <=> (vm.exists /\ vm.biosUUID
                                                      = SubSeq(p.val, 11, 46))
                                    /\ r.err = IF r.found THEN NoErr ELSE "notfound"
               ELSE /\ r.by = "instanceUUID"
                    /\ fault = "none"
                         => /\ r.found <=> (vm.exists /\ vm.instanceUUID = MachineUID)
                            /\ r.err = IF r.found THEN NoErr ELSE "notfound"

C29_Witness ==
    /\ lookup.op = "findVM" /\ WellFormedID(lookup.providerID)
    /\ vm.exists /\ vm.instanceUUID = MachineUID
    /\ vm.biosUUID # SubSeq(lookup.providerID.val, 11, 46)
    /\ lookup.res.err = "notfound" /\ lookup.res.by = "biosUUID"


\* C12: once the wait of a background unit has returned, whether the task or
\* the wait succeeded or failed, a GenericEvent for the resource has been sent
\* into the event channel.
C12_SignalAfterEveryWait ==
    events = Cardinality(Returned)

C14_NotifierReturnsAtOnce ==
    [][(pc = "idle" /\ pc' = "patch" /\ Len(waits') > Len(waits))
       => /\ Len(waits') = Len(waits) + 1
          /\ waits'[Len(waits')].state = "blocked"
          /\ SubSeq(waits', 1, Len(waits)) = waits
          /\ events' = events]_vars

C14_Witness ==
    /\ pc = "returned" /\ patched = "ok" /\ Len(waits) > 0
    /\ waits[Len(waits)].state = "blocked"
    /\ waits[Len(waits)].task = issued
    /\ obj.Status.TaskRef = TaskRefOf(issued)
    /\ before.Status.TaskRef # obj.Status.TaskRef

\* the returns of Reconcile taken because a store call failed, absence apart
FailureExits == {"getErr", "ownerErr", "clusterErr", "vsphereClusterErr",
                 "sessionErr", "helperErr"}

\* C28: every failed call of the store or of the provider made during a
\* reconcile is the error the reconcile returns: a fetch that fails with an
\* error other than not-found, a failed patch, a failed step, and a task query
\* the provider answers with an error.
C28_NoFailureSwallowed ==
    /\ (pc = "returned" /\ exit \in FailureExits) => reterr # NoErr
    /\ (pc = "returned" /\ patched \notin {"none", "ok"}) => reterr # NoErr
    /\ (pc = "returned" /\ stepErr # NoErr) => reterr # NoErr
    /\ (pc = "returned" /\ calls # {} /\ before.Status.TaskRef # ""
          /\ fault = "taskQuery") => reterr # NoErr

\* a step in which a background unit returned from its wait
UnitReturns(i) ==
    /\ i \in 1..Len(waits) /\ Len(waits') = Len(waits)
    /\ waits[i].state = "blocked" /\ waits'[i].state = "done"

\* C27: a background unit that returns changes neither the stored machine nor
\* the copy a reconcile holds; it sends at most one event and changes no
\* other unit.  The Status of the stored machine changes in the patch of a
\* reconcile run only.
C27_UnitNeverMutates ==
    [][/\ \A i \in 1..Len(waits) :
             UnitReturns(i)
                => /\ store' = store
                   /\ obj' = obj /\ before' = before
                   /\ events' \in {events, events + 1}
                   /\ \A j \in 1..Len(waits) : j # i => waits'[j] = waits[j]
       /\ (Exists(store) /\ Exists(store') /\ store'.Status # store.Status)
             => (pc = "patch" /\ pc' = "poll")]_vars

C27_Witness ==
    /\ pc = "patch" /\ obj # before /\ store = before
    /\ store.Status.TaskRef # ""
    /\ \E i \in Returned : waits[i].err = NoErr /\ waits[i].kind = "task"
    /\ events = 1

C33_ReadyMonotonic ==
    (pc \in {"patch", "poll", "sleep", "returned"} /\ Exists(before)
       /\ before.Status.Ready)
        => obj.Status.Ready

C33_Witness ==
    /\ AfterStep /\ ~Deleting /\ before.Status.Ready /\ obj.Status.Ready
    /\ view.State = VirtualMachineStateReady
    /\ Len(view.Network) = before.Spec.Devices
    /\ IPAddrsOf(view.Network) = <<>>
    /\ exit = "waitIP"

\* the provider holds no instance any more and no task is in flight for the
\* machine the run fetched
InstanceGone ==
    /\ ~vm.exists /\ fault = "none"
    /\ \/ before.Status.TaskRef = ""
       \/ ~getTask(before).found
       \/ getTask(before).state \in {TaskInfoStateSuccess, TaskInfoStateError}

\* C32: a deletion-path run made after the instance is gone removes the
\* lifecycle finalizer from the stored machine when its patch succeeds; the
\* stored machine loses the finalizer in no other step than the patch of a
\* deletion-path run whose view was not-found.
C32_DeletionConverges ==
    /\ [][(Exists(store) /\ HasFinalizer(store)
            /\ (~Exists(store') \/ ~HasFinalizer(store')))
          => /\ pc = "patch" /\ pc' = "poll" /\ Deleting
             /\ view.State = VirtualMachineStateNotFound]_vars
    /\ (pc = "patch" /\ Deleting /\ InstanceGone)
          ~> (pc = "poll" /\ (patched # "ok" \/ ~Exists(store)
                                \/ ~HasFinalizer(store)))

C32_Witness ==
    /\ pc = "poll" /\ Deleting /\ patched = "ok"
    /\ view.State = VirtualMachineStateNotFound /\ HasFinalizer(before)
    /\ issued > 0 /\ tasks[issued].kind = "destroy"
    /\ tasks[issued].state = TaskInfoStateSuccess
    /\ Exists(store) /\ ~HasFinalizer(store)

\* C34: an error of the dispatched step does not undo what the step already
\* changed in memory: a normal path that fails in ReconcileVM still carries
\* the finalizer it added, one that fails in the provider-id step still
\* carries the projected network and addresses, and the exit patch of a run
\* whose step returned an error submits the changed machine, so that the
\* stored machine changes in a run that reports the error of its step.
C34_ErrorKeepsChanges ==
    /\ [](AfterStep /\ ~Deleting /\ exit = "vmErr" => HasFinalizer(obj))
    /\ [](AfterStep /\ ~Deleting /\ exit = "providerIDErr"
             => /\ HasFinalizer(obj)
                /\ obj.Status.Network = view.Network
                /\ obj.Status.Addresses = IPAddrsOf(view.Network))
    /\ [][(pc = "patch" /\ pc' = "poll" /\ stepErr # NoErr /\ obj # before
             /\ PatchOutcome = "ok")
            => /\ store' = Patched(obj)
               /\ store' # store
               /\ patched' = "ok"
               /\ reterr' = stepErr]_vars

C34_Witness ==
    /\ pc = "poll" /\ ~Deleting /\ exit = "vmErr" /\ stepErr # NoErr
    /\ patched = "ok" /\ reterr = stepErr
    /\ ~HasFinalizer(before) /\ Exists(store) /\ HasFinalizer(store)
    /\ store.ResourceVersion = before.ResourceVersion + 1

\* the provider reports the instance ready: powered on, as many interfaces as
\* the machine asks for, an address, a BIOS UUID of the UUID shape
ProviderReady ==
    /\ vm.exists /\ vm.poweredOn
    /\ Exists(store) /\ Len(vm.network) = store.Spec.Devices
    /\ HasAddress(vm.network)
    /\ vm.biosUUID = GoodUUID

\* what the normal path asks of the machine and of its ancestors
Favourable ==
    /\ Exists(store) /\ ~store.DeletionTimestamp /\ ~InErrorState(store)
    /\ store.ResourceVersion < MaxVersion
    /\ precond = "met" /\ fault = "none"
    /\ ProviderReady

\* C31: the normal path converges: for a machine without deletion timestamp
\* and error state whose preconditions are met, if from some point on the
\* provider reports the instance ready with the interfaces asked for, an
\* address and a valid BIOS UUID, and events keep being delivered and
\* processed with patches that succeed, then the stored machine is
\* eventually ready with its provider id set.
C31_NormalPathConverges ==
    (<>[]Favourable)
        => <>(Exists(store) /\ store.Status.Ready /\ store.Spec.ProviderID.set)

====
